---- MODULE Spec2Model ----
(***************************************************************************)
(* Model of the caching proxy of main.go: the on-disk cache directory, the *)
(* store-wide sync.RWMutex, the request handler (proxyHandler with the     *)
(* get and set it calls) run by concurrent goroutines, the cleanup         *)
(* goroutine (startCleanupRoutine / cleanExpiredCache) and the clock.      *)
(***************************************************************************)
EXTENDS Integers, Sequences, FiniteSets, TLC

\* ------------------------------------------------------------- bounds
\* The configured cache TTL, in clock ticks (CACHE_TTL_SECONDS scaled down).
TTL == 1
\* The clock runs from 0 to MaxTime.
MaxTime == 2

\* ---------------------------------------------------------- constants
None == "none"
Sweeper == "sweeper"
\* The goroutines net/http runs proxyHandler on.
Procs == {"r1", "r2"}
\* The router accepts GET only.
Method == "GET"
\* Values of the url query parameter, in directory (file name) order.
URLSeq == <<"a", "b">>
URLs == {URLSeq[i] : i \in 1..Len(URLSeq)}
\* What the upstream may answer: a status code and a body.
Upstream == {[status |-> 200, body |-> "x"], [status |-> 404, body |-> "y"]}
\* Request headers: a request carries none, or one of two header sets that
\* the upstream tells apart (such as two Authorization values).
NoHeaders == ""
Headers == {"h1", "h2"}
\* The handler copies the request headers onto the upstream request, so the
\* upstream may answer by them: here each header set has its own answer, and
\* a request without headers may get any.
UpstreamFor(h) ==
    CASE h = "h1" -> {[status |-> 200, body |-> "x"]}
      [] h = "h2" -> {[status |-> 404, body |-> "y"]}
      [] OTHER -> Upstream

\* ------------------------------------------------------------ helpers
\* The SHA-256 digest is taken as injective on its input bytes, so a key is
\* Faulty variant of getCacheKey: the headers are hashed too.
getCacheKeyWithHeaders(method, url, headers) == method \o url \o headers
\* identified with the bytes hashed: method immediately followed by url.
\* The headers parameter is not read.
getCacheKey(method, url, headers) == method \o url

KeySeq == [i \in 1..Len(URLSeq) |-> getCacheKey(Method, URLSeq[i], NoHeaders)]
Keys == {KeySeq[i] : i \in 1..Len(KeySeq)}

\* CacheItem{Data, Timestamp}; NoItem is the zero value.
NoItem == [Data |-> "", Timestamp |-> 0]
CacheItem(data, ts) == [Data |-> data, Timestamp |-> ts]

\* What a path of the cache directory holds: no file, a file cut short
\* (created, its gzip stream not yet or never completed), or the gzip of the
\* JSON encoding of a CacheItem.
NoFile == [kind |-> "absent", data |-> "", ts |-> 0]
Truncated == [kind |-> "partial", data |-> "", ts |-> 0]
\* Faulty variant of Encode: the timestamp is not written, every file
\* carries the zero time.
EncodeNoTimestamp(item) == [kind |-> "entry", data |-> item.Data, ts |-> 0]
Encode(item) == [kind |-> "entry", data |-> item.Data, ts |-> item.Timestamp]

\* Faulty variant of readCacheFile: the file is looked for under another
\* name and never found.
readCacheFileWrongPath(f) == [err |-> "notexist", item |-> NoItem]
\* Variant of readCacheFile: a file that cannot be decoded is reported as
\* not existing.
readCacheFileDecodeAsAbsent(f) ==
    CASE f.kind = "entry" -> [err |-> "nil", item |-> CacheItem(f.data, f.ts)]
      [] OTHER -> [err |-> "notexist", item |-> NoItem]
\* readCacheFile: os.Open, gzip.NewReader, json Decode.
readCacheFile(f) ==
    CASE f.kind = "absent" -> [err |-> "notexist", item |-> NoItem]
      [] f.kind = "partial" -> [err |-> "decode", item |-> NoItem]
      [] OTHER -> [err |-> "nil", item |-> CacheItem(f.data, f.ts)]

\* The expiry tests of get and of cleanExpiredCache.
\* Faulty variants of the expiry tests: the boundary age counts as expired.
GetExpiredGE(ts, now) == now - ts >= TTL
SweepExpiredGE(ts, now) == now - ts >= TTL
GetExpired(ts, now) == now - ts > TTL
SweepExpired(ts, now) == now - ts > TTL

\* sync.RWMutex: RLock waits while a writer holds or has asked for the lock;
\* Lock first takes the writers' turn, then waits for the readers to leave.
\* Faulty variants of the lock: one that does not wait.
CanRLockAlways(m) == TRUE
CanLockAlways(m) == TRUE
ReadersGoneAlways(m) == TRUE
CanRLock(m) == m.writer = None
CanLock(m) == m.writer = None
ReadersGone(m) == m.readers = {}

VARIABLES
    cacheDir,   \* key -> what the file of the key holds
    mu,         \* [writer, readers]: the RWMutex
    clock,      \* time.Now()
    req,        \* goroutine -> the request it serves: position and locals
    sw,         \* the cleanup goroutine: position and locals; history:
                \* snap, the directory as listed, and failed, the keys
                \* whose removal failed in this cycle
    lastSet     \* history: key -> the item last written in full by a set

vars == <<cacheDir, mu, clock, req, sw, lastSet>>

NoResp == [code |-> 0, xcache |-> "", ctype |-> "", body |-> ""]
IdleReq ==
    [pc |-> "idle", method |-> "", url |-> "", hdr |-> NoHeaders,
     key |-> "", item |-> NoItem, now |-> 0,
     found |-> FALSE, err |-> FALSE,
     body |-> "", status |-> 0, calls |-> 0, setErr |-> FALSE,
     fault |-> FALSE, resp |-> NoResp]
IdleSweep ==
    [pc |-> "sleep", files |-> <<>>, now |-> 0, i |-> 1,
     failed |-> {}, snap |-> [k \in Keys |-> NoFile]]

Init ==
    /\ cacheDir = [k \in Keys |-> NoFile]
    /\ mu = [writer |-> None, readers |-> {}]
    /\ clock = 0
    /\ req = [p \in Procs |-> IdleReq]
    /\ sw = IdleSweep
    /\ lastSet = [k \in Keys |-> NoItem]

Upd(p, r) == req' = [req EXCEPT ![p] = r]

\* ------------------------------------------------------------- clock
Tick ==
    /\ clock < MaxTime
    /\ clock' = clock + 1
    /\ UNCHANGED <<cacheDir, mu, req, sw, lastSet>>

\* ------------------------------------------------------ proxyHandler
\* A request arrives: the url parameter is read, a missing one ends the
\* request with 400, otherwise the key is derived and get is called.
\* The request's url is drawn from urls and its headers from hdrs.
Arrive(p, urls, hdrs) ==
    /\ req[p].pc = "idle"
    /\ \E u \in urls, h \in hdrs :
         IF u = ""
         THEN Upd(p, [req[p] EXCEPT !.pc = "done", !.method = Method,
                        !.hdr = h,
                        !.resp = [NoResp EXCEPT !.code = 400]])
         ELSE Upd(p, [req[p] EXCEPT !.pc = "rlock", !.method = Method,
                        !.url = u, !.hdr = h,
                        !.key = getCacheKey(Method, u, h)])
    /\ UNCHANGED <<cacheDir, mu, clock, sw, lastSet>>

\* Faulty variant of Start: the store lock is read-locked before the url is
\* validated and not released on the early return.
StartLockFirst(p) ==
    /\ req[p].pc = "idle"
    /\ \E u \in URLs \cup {""} :
         IF u = ""
         THEN /\ Upd(p, [req[p] EXCEPT !.pc = "done", !.method = Method,
                           !.resp = [NoResp EXCEPT !.code = 400]])
              /\ mu' = [mu EXCEPT !.readers = @ \cup {p}]
         ELSE /\ Upd(p, [req[p] EXCEPT !.pc = "rlock", !.method = Method,
                           !.url = u,
                           !.key = getCacheKey(Method, u, NoHeaders)])
              /\ UNCHANGED mu
    /\ UNCHANGED <<cacheDir, clock, sw, lastSet>>
\* A request without headers, for any url or none.
Start(p) == Arrive(p, URLs \cup {""}, {NoHeaders})

\* get: pc.mu.RLock()
GetRLock(p) ==
    /\ req[p].pc = "rlock"
    /\ CanRLock(mu)
    /\ mu' = [mu EXCEPT !.readers = @ \cup {p}]
    /\ Upd(p, [req[p] EXCEPT !.pc = "read"])
    /\ UNCHANGED <<cacheDir, clock, sw, lastSet>>

\* get: readCacheFile with its error branches, then the expiry test on the
\* clock as time.Since reads it.
GetRead(p) ==
    /\ req[p].pc = "read"
    /\ LET r == readCacheFile(cacheDir[req[p].key]) IN
         CASE r.err = "notexist" ->
                Upd(p, [req[p] EXCEPT !.pc = "runlock"])
           [] r.err = "decode" ->
                Upd(p, [req[p] EXCEPT !.pc = "runlock", !.err = TRUE])
           [] OTHER ->
                IF GetExpired(r.item.Timestamp, clock)
                THEN Upd(p, [req[p] EXCEPT !.pc = "remove", !.item = r.item,
                               !.now = clock])
                ELSE Upd(p, [req[p] EXCEPT !.pc = "runlock", !.item = r.item,
                               !.now = clock, !.found = TRUE])
    /\ UNCHANGED <<cacheDir, mu, clock, sw, lastSet>>

\* get: os.Remove of the expired file, its error ignored.
GetRemove(p) ==
    /\ req[p].pc = "remove"
    /\ \E ok \in BOOLEAN :
         cacheDir' = IF ok THEN [cacheDir EXCEPT ![req[p].key] = NoFile]
                     ELSE cacheDir
    /\ Upd(p, [req[p] EXCEPT !.pc = "runlock"])
    /\ UNCHANGED <<mu, clock, sw, lastSet>>

\* A call has returned: its locals (the item, the clock reading) are dead;
\* the error flags and the response stay with the request.
Returned(r) == [r EXCEPT !.item = NoItem, !.now = 0]

\* get returns (the deferred RUnlock) and the handler acts on the result:
\* 500 on an error, the cached data on a hit, the upstream call otherwise.
\* Faulty variant of GetReturn: the error path returns without RUnlock.
GetReturnNoUnlockOnError(p) ==
    /\ req[p].pc = "runlock"
    /\ mu' = IF req[p].err THEN mu ELSE [mu EXCEPT !.readers = @ \ {p}]
    /\ IF req[p].err
       THEN Upd(p, [Returned(req[p]) EXCEPT !.pc = "done",
                      !.resp = [NoResp EXCEPT !.code = 500]])
       ELSE IF req[p].found
       THEN Upd(p, [Returned(req[p]) EXCEPT !.pc = "done",
                      !.resp = [code |-> 200, xcache |-> "HIT",
                                ctype |-> "application/json",
                                body |-> req[p].item.Data]])
       ELSE Upd(p, [Returned(req[p]) EXCEPT !.pc = "fetch"])
    /\ UNCHANGED <<cacheDir, clock, sw, lastSet>>
GetReturn(p) ==
    /\ req[p].pc = "runlock"
    /\ mu' = [mu EXCEPT !.readers = @ \ {p}]
    /\ IF req[p].err
       THEN Upd(p, [Returned(req[p]) EXCEPT !.pc = "done",
                      !.resp = [NoResp EXCEPT !.code = 500]])
       ELSE IF req[p].found
       THEN Upd(p, [Returned(req[p]) EXCEPT !.pc = "done",
                      !.resp = [code |-> 200, xcache |-> "HIT",
                                ctype |-> "application/json",
                                body |-> req[p].item.Data]])
       ELSE Upd(p, [Returned(req[p]) EXCEPT !.pc = "fetch"])
    /\ UNCHANGED <<cacheDir, clock, sw, lastSet>>

\* The upstream call: http.NewRequest, client.Do, io.ReadAll.
\* Faulty variant of Fetch: after a failed client.Do the handler goes on and
\* stores the empty body.
FetchStoreOnFailure(p) ==
    /\ req[p].pc = "fetch"
    /\ \/ Upd(p, [req[p] EXCEPT !.pc = "done",
                    !.resp = [NoResp EXCEPT !.code = 500]])
       \/ Upd(p, [req[p] EXCEPT !.pc = "lock", !.calls = @ + 1,
                    !.resp = [NoResp EXCEPT !.code = 502]])
       \/ Upd(p, [req[p] EXCEPT !.pc = "done", !.calls = @ + 1,
                    !.resp = [NoResp EXCEPT !.code = 500]])
       \/ \E u \in UpstreamFor(req[p].hdr) :
            Upd(p, [req[p] EXCEPT !.pc = "lock", !.calls = @ + 1,
                      !.status = u.status, !.body = u.body])
    /\ UNCHANGED <<cacheDir, mu, clock, sw, lastSet>>
\* Faulty variant of Fetch: only a 200 response goes on to set, any other
\* is passed on as it is.
FetchStoreOnly200(p) ==
    /\ req[p].pc = "fetch"
    /\ \/ Upd(p, [req[p] EXCEPT !.pc = "done",
                    !.resp = [NoResp EXCEPT !.code = 500]])
       \/ Upd(p, [req[p] EXCEPT !.pc = "done", !.calls = @ + 1,
                    !.resp = [NoResp EXCEPT !.code = 502]])
       \/ Upd(p, [req[p] EXCEPT !.pc = "done", !.calls = @ + 1,
                    !.resp = [NoResp EXCEPT !.code = 500]])
       \/ \E u \in UpstreamFor(req[p].hdr) :
            IF u.status = 200
            THEN Upd(p, [req[p] EXCEPT !.pc = "lock", !.calls = @ + 1,
                           !.status = u.status, !.body = u.body])
            ELSE Upd(p, [req[p] EXCEPT !.pc = "done", !.calls = @ + 1,
                           !.status = u.status, !.body = u.body,
                           !.resp = [code |-> u.status, xcache |-> "MISS",
                                     ctype |-> "", body |-> u.body]])
    /\ UNCHANGED <<cacheDir, mu, clock, sw, lastSet>>
Fetch(p) ==
    /\ req[p].pc = "fetch"
    /\ \/ \* http.NewRequest fails
          Upd(p, [req[p] EXCEPT !.pc = "done",
                    !.resp = [NoResp EXCEPT !.code = 500]])
       \/ \* client.Do fails
          Upd(p, [req[p] EXCEPT !.pc = "done", !.calls = @ + 1,
                    !.resp = [NoResp EXCEPT !.code = 502]])
       \/ \* the response arrives, reading its body fails
          Upd(p, [req[p] EXCEPT !.pc = "done", !.calls = @ + 1,
                    !.resp = [NoResp EXCEPT !.code = 500]])
       \/ \E u \in UpstreamFor(req[p].hdr) :
            Upd(p, [req[p] EXCEPT !.pc = "lock", !.calls = @ + 1,
                      !.status = u.status, !.body = u.body])
    /\ UNCHANGED <<cacheDir, mu, clock, sw, lastSet>>

\* set: pc.mu.Lock(), its first half: the writers' turn is taken.
SetLock(p) ==
    /\ req[p].pc = "lock"
    /\ CanLock(mu)
    /\ mu' = [mu EXCEPT !.writer = p]
    /\ Upd(p, [req[p] EXCEPT !.pc = "wlock"])
    /\ UNCHANGED <<cacheDir, clock, sw, lastSet>>

\* set: pc.mu.Lock() returns once the readers have left.
SetAcquire(p) ==
    /\ req[p].pc = "wlock"
    /\ ReadersGone(mu)
    /\ Upd(p, [req[p] EXCEPT !.pc = "create"])
    /\ UNCHANGED <<cacheDir, mu, clock, sw, lastSet>>

\* set: os.Create truncates the file, or fails and set returns the error.
SetCreate(p) ==
    /\ req[p].pc = "create"
    /\ \/ /\ cacheDir' = [cacheDir EXCEPT ![req[p].key] = Truncated]
          /\ Upd(p, [req[p] EXCEPT !.pc = "write"])
       \/ /\ Upd(p, [req[p] EXCEPT !.pc = "unlock", !.setErr = TRUE,
                       !.fault = TRUE])
          /\ UNCHANGED cacheDir
    /\ UNCHANGED <<mu, clock, sw, lastSet>>

\* set: the item is stamped and encoded through the gzip writer, and the
\* deferred writer.Close and file.Close run. Encode's error is returned;
\* the error of the deferred writer.Close is dropped.
SetWrite(p) ==
    /\ req[p].pc = "write"
    /\ LET item == CacheItem(req[p].body, clock) IN
       \/ /\ cacheDir' = [cacheDir EXCEPT ![req[p].key] = Encode(item)]
          /\ Upd(p, [req[p] EXCEPT !.pc = "unlock", !.item = item])
       \/ \E e \in BOOLEAN :
          /\ Upd(p, [req[p] EXCEPT !.pc = "unlock", !.item = item,
                       !.setErr = e, !.fault = TRUE])
          /\ UNCHANGED cacheDir
    /\ UNCHANGED <<mu, clock, sw, lastSet>>

\* set returns (the deferred Unlock) and the handler writes the response:
\* an error of set is only logged.
\* Faulty variant of SetReturn: an error of set ends the request with 500.
SetReturnFailOnError(p) ==
    /\ req[p].pc = "unlock"
    /\ mu' = [mu EXCEPT !.writer = None]
    /\ lastSet' = IF req[p].fault THEN lastSet
                  ELSE [lastSet EXCEPT ![req[p].key] = req[p].item]
    /\ Upd(p, [Returned(req[p]) EXCEPT !.pc = "done",
                 !.resp = IF req[p].setErr
                          THEN [NoResp EXCEPT !.code = 500]
                          ELSE [code |-> req[p].status, xcache |-> "MISS",
                                ctype |-> "", body |-> req[p].body]])
    /\ UNCHANGED <<cacheDir, clock, sw>>
SetReturn(p) ==
    /\ req[p].pc = "unlock"
    /\ mu' = [mu EXCEPT !.writer = None]
    /\ lastSet' = IF req[p].fault THEN lastSet
                  ELSE [lastSet EXCEPT ![req[p].key] = req[p].item]
    /\ Upd(p, [Returned(req[p]) EXCEPT !.pc = "done",
                 !.resp = [code |-> req[p].status, xcache |-> "MISS",
                           ctype |-> "", body |-> req[p].body]])
    /\ UNCHANGED <<cacheDir, clock, sw>>

\* The handler has returned; the goroutine is free for the next request.
Done(p) ==
    /\ req[p].pc = "done"
    /\ Upd(p, IdleReq)
    /\ UNCHANGED <<cacheDir, mu, clock, sw, lastSet>>

\* ------------------------------------------------- cleanExpiredCache
\* os.ReadDir: the names of the files present, in name order.
ReadDir(dir) == SelectSeq(KeySeq, LAMBDA k : dir[k].kind # "absent")

\* The ticker fires and cleanExpiredCache asks for the lock.
SweepLock ==
    /\ sw.pc = "sleep"
    /\ CanLock(mu)
    /\ mu' = [mu EXCEPT !.writer = Sweeper]
    /\ sw' = [sw EXCEPT !.pc = "wlock"]
    /\ UNCHANGED <<cacheDir, clock, req, lastSet>>

\* The lock is held: the directory is listed and the clock read once.
SweepAcquire ==
    /\ sw.pc = "wlock"
    /\ ReadersGone(mu)
    /\ \/ sw' = [sw EXCEPT !.pc = "loop", !.files = ReadDir(cacheDir),
                   !.now = clock, !.i = 1, !.failed = {},
                   !.snap = cacheDir]
       \/ \* os.ReadDir fails: the cycle returns the error
          sw' = [sw EXCEPT !.pc = "unlock"]
    /\ UNCHANGED <<cacheDir, mu, clock, req, lastSet>>

\* One iteration of the loop over the listed files.
\* Faulty variant of SweepStep: a file that cannot be read or removed ends
\* the loop.
SweepStepStopOnError ==
    /\ sw.pc = "loop"
    /\ sw.i <= Len(sw.files)
    /\ LET k == sw.files[sw.i]
           r == readCacheFile(cacheDir[k]) IN
         IF r.err = "nil" /\ SweepExpired(r.item.Timestamp, sw.now)
         THEN \/ /\ cacheDir' = [cacheDir EXCEPT ![k] = NoFile]
                 /\ sw' = [sw EXCEPT !.i = @ + 1]
              \/ /\ sw' = [sw EXCEPT !.i = Len(sw.files) + 1,
                                     !.failed = @ \cup {k}]
                 /\ UNCHANGED cacheDir
         ELSE /\ sw' = [sw EXCEPT !.i = IF r.err = "nil" THEN @ + 1
                                        ELSE Len(sw.files) + 1]
              /\ UNCHANGED cacheDir
    /\ UNCHANGED <<mu, clock, req, lastSet>>
SweepStep ==
    /\ sw.pc = "loop"
    /\ sw.i <= Len(sw.files)
    /\ LET k == sw.files[sw.i]
           r == readCacheFile(cacheDir[k]) IN
         IF r.err = "nil" /\ SweepExpired(r.item.Timestamp, sw.now)
         THEN \/ /\ cacheDir' = [cacheDir EXCEPT ![k] = NoFile]
                 /\ sw' = [sw EXCEPT !.i = @ + 1]
              \/ \* os.Remove fails: logged, the loop goes on
                 /\ sw' = [sw EXCEPT !.i = @ + 1, !.failed = @ \cup {k}]
                 /\ UNCHANGED cacheDir
         ELSE /\ sw' = [sw EXCEPT !.i = @ + 1]
              /\ UNCHANGED cacheDir
    /\ UNCHANGED <<mu, clock, req, lastSet>>

\* The loop is over (or ReadDir failed): the deferred Unlock.
SweepReturn ==
    /\ \/ sw.pc = "loop" /\ sw.i > Len(sw.files)
       \/ sw.pc = "unlock"
    /\ mu' = [mu EXCEPT !.writer = None]
    /\ sw' = IdleSweep
    /\ UNCHANGED <<cacheDir, clock, req, lastSet>>

\* ------------------------------------------------------ specification
\* The steps of a request after its arrival.
Serve(p) ==
    \/ GetRLock(p)
    \/ GetRead(p)
    \/ GetRemove(p)
    \/ GetReturn(p)
    \/ Fetch(p)
    \/ SetLock(p)
    \/ SetAcquire(p)
    \/ SetCreate(p)
    \/ SetWrite(p)
    \/ SetReturn(p)
    \/ Done(p)

Handler(p) == Start(p) \/ Serve(p)

Cleanup == SweepLock \/ SweepAcquire \/ SweepStep \/ SweepReturn

Next == Tick \/ Cleanup \/ (\E p \in Procs : Handler(p))

Spec == Init /\ [][Next]_vars

\* Requests served one after the other: a single handler goroutine, with
\* the cleanup goroutine and the clock.
NextSeq == Tick \/ Cleanup \/ Handler("r1")

SpecSeq == Init /\ [][NextSeq]_vars

\* ------------------------------------------------------------- claims
\* Where a goroutine stands with respect to the lock.
InGet(p) == req[p].pc \in {"read", "remove", "runlock"}
InSet(p) == req[p].pc \in {"create", "write", "unlock"}
InSweep == sw.pc \in {"loop", "unlock"}
\* get has read the file of its key and decided.
Looked(p) == req[p].pc \in {"remove", "runlock"}
\* The request took the miss path and its own set has not yet returned.
Missed(p) == req[p].pc \in {"fetch", "lock", "wlock", "create", "write", "unlock"}
Age(item) == clock - item.Timestamp

C2_StrictStaleness ==
    /\ \A p \in Procs :
         LET r == req[p] IN
           /\ (Looked(p) /\ r.found) => r.item # NoItem
           /\ (Looked(p) /\ r.item # NoItem)
                => (r.found <=> r.now - r.item.Timestamp <= TTL)
           /\ r.pc = "remove" => r.now - r.item.Timestamp > TTL
    /\ sw.pc = "loop" =>
         \A j \in 1..(sw.i - 1) :
           LET k == sw.files[j]
               f == sw.snap[k] IN
             f.kind = "entry" =>
               ((cacheDir[k] = NoFile \/ k \in sw.failed)
                  <=> sw.now - f.ts > TTL)

\* A hit on an entry whose age is exactly the TTL.
C2_Witness ==
    \E p \in Procs :
      /\ req[p].pc = "runlock"
      /\ req[p].found
      /\ req[p].now - req[p].item.Timestamp = TTL

\* C3: no get and no sweep step reads the store while a set is between
\* taking and releasing the lock, and an item a get returns is the whole
\* item of the last set that wrote its file in full: the entry from before
\* a set in progress or, once that set has returned, its payload.
C3_AtomicRead ==
    [][/\ ((\E p \in Procs : GetRead(p)) \/ SweepStep)
            => \A q \in Procs : ~InSet(q)
       /\ \A p \in Procs :
            (GetRead(p) /\ req'[p].item # NoItem)
              => req'[p].item = lastSet[req[p].key]]_vars

\* A get waits for the lock while a set of its key has the file open.
C3_Witness ==
    \E p, q \in Procs :
      /\ req[p].pc = "write"
      /\ req[q].pc = "rlock"
      /\ req[q].key = req[p].key
      /\ lastSet[req[p].key] # NoItem

\* C4: while a set or a sweep cycle is inside its critical section no other
\* set, no sweep and no get is inside its own. (Gets do share theirs.)
C4_LockDiscipline ==
    /\ \A p \in Procs :
         InSet(p) => /\ ~InSweep
                     /\ \A q \in Procs \ {p} : ~InSet(q) /\ ~InGet(q)
    /\ InSweep => \A q \in Procs : ~InSet(q) /\ ~InGet(q)

\* A set is inside its critical section while a get and the sweep wait.
C4_Witness ==
    \E p, q \in Procs :
      /\ InSet(p)
      /\ req[q].pc = "rlock"
      /\ sw.pc = "sleep"

\* C5: sets of one key are serialized. A set that wrote its file in full
\* finds exactly its own entry there when it returns, and once no set of
\* the key is running the file read back is the entry of the set that
\* returned last (or, that entry being older than the TTL, removed).
C5_LastWriterWins ==
    /\ \A p \in Procs :
         (req[p].pc = "unlock" /\ ~req[p].fault)
           => cacheDir[req[p].key] = Encode(req[p].item)
    /\ \A k \in Keys :
         (/\ \A p \in Procs : ~(InSet(p) /\ req[p].key = k)
          /\ lastSet[k] # NoItem
          /\ cacheDir[k].kind # "partial")
           => \/ cacheDir[k] = Encode(lastSet[k])
              \/ cacheDir[k] = NoFile /\ Age(lastSet[k]) > TTL

\* Two sets of one key with different payloads: one has written and holds
\* the lock, the other waits for it.
C5_Witness ==
    \E p, q \in Procs :
      /\ req[p].pc = "unlock"
      /\ ~req[p].fault
      /\ req[q].pc = "lock"
      /\ req[q].key = req[p].key
      /\ req[q].body # req[p].body

\* C6: read after write. A get that has looked at its key, the file being
\* decodable, hits with exactly the item of the last set that wrote the file
\* in full whenever that item's age is within the TTL, and a hit never
\* carries anything else.
C6_ReadAfterWrite ==
    \A p \in Procs :
      LET r == req[p]
          L == lastSet[r.key] IN
        (Looked(p) /\ ~r.err) =>
          /\ (L # NoItem /\ Age(L) <= TTL) => (r.found /\ r.item = L)
          /\ r.found => (r.item = L /\ r.now - L.Timestamp <= TTL)

\* A get returns the payload of a set while the other body is what the
\* upstream gave the request that is now replacing it.
C6_Witness ==
    \E p, q \in Procs :
      /\ req[p].pc = "runlock"
      /\ req[p].found
      /\ req[p].item = lastSet[req[p].key]
      /\ req[q].pc = "lock"
      /\ req[q].key = req[p].key
      /\ req[q].body # req[p].item.Data

\* The sweep has gone through its whole listing.
SweepDone == sw.pc = "loop" /\ sw.i > Len(sw.files)
\* The keys that held a readable entry when the cycle listed the directory,
\* and those of them that were stale at the cycle's clock reading.
SnapEntries == {k \in Keys : sw.snap[k].kind = "entry"}
SnapStale == {k \in SnapEntries : sw.now - sw.snap[k].ts > TTL}

\* C7: at the end of a sweep cycle in which no removal failed, exactly the
\* entries that were stale when the cycle began are gone, and every other
\* file is as it was.
C7_SweepExact ==
    (SweepDone /\ sw.failed = {}) =>
      /\ \A k \in SnapStale : cacheDir[k] = NoFile
      /\ \A k \in Keys \ SnapStale : cacheDir[k] = sw.snap[k]
      /\ Cardinality({k \in SnapEntries : cacheDir[k] = NoFile})
           = Cardinality(SnapStale)

\* A cycle over two entries, one stale, has ended.
C7_Witness ==
    /\ SweepDone
    /\ sw.failed = {}
    /\ Cardinality(SnapEntries) = 2
    /\ Cardinality(SnapStale) = 1

\* C8: an entry leaves the store only in a step of the sweep or in the
\* removal step of a get of its key, only when its age exceeds the TTL, and
\* the entry a get removes is the one that get read.
C8_RemoveOnlyStale ==
    [][\A k \in Keys :
         (cacheDir[k].kind = "entry" /\ cacheDir'[k] = NoFile) =>
           /\ clock - cacheDir[k].ts > TTL
           /\ \/ SweepStep
              \/ \E p \in Procs :
                   /\ GetRemove(p)
                   /\ req[p].key = k
                   /\ Encode(req[p].item) = cacheDir[k]]_vars

\* A get found its entry stale and removed it.
C8_Witness ==
    \E p \in Procs :
      /\ req[p].pc = "runlock"
      /\ ~req[p].found
      /\ req[p].item # NoItem
      /\ cacheDir[req[p].key] = NoFile

\* C9: whenever no set of a key is running, the file of the key is absent
\* or a complete entry. (os.Create truncates the file in place, so a set
\* that fails after it leaves the truncated file behind.)
C9_NoPartialFile ==
    \A k \in Keys :
      (\A p \in Procs : ~(InSet(p) /\ req[p].key = k))
        => cacheDir[k].kind \in {"absent", "entry"}

\* C10: a request whose get failed on an undecodable file does not end with
\* 500: it goes on to the upstream call. (The handler answers 500.)
C10_DecodeErrorIsMiss ==
    \A p \in Procs :
      (req[p].pc = "done" /\ req[p].err) => req[p].resp.code # 500

\* The upstream answered the request and its body was read in full.
Fetched(p) == req[p].calls = 1 /\ req[p].status # 0

\* C11: a request whose upstream call succeeded and whose body was read
\* ends with X-Cache MISS, the upstream status and the fetched body, whether
\* its set returned an error or not.
C11_SetErrorNotReported ==
    \A p \in Procs :
      (req[p].pc = "done" /\ Fetched(p)) =>
        req[p].resp = [code |-> req[p].status, xcache |-> "MISS",
                       ctype |-> "", body |-> req[p].body]

\* A request has ended as a MISS although its set returned an error.
C11_Witness ==
    \E p \in Procs :
      /\ req[p].pc = "done"
      /\ Fetched(p)
      /\ req[p].setErr
      /\ req[p].resp.xcache = "MISS"
      /\ req[p].resp.code = 404

\* The request is in its call of set, from asking for the lock on.
CallsSet(p) == req[p].pc \in {"lock", "wlock", "create", "write", "unlock"}

\* C12: the step in which the upstream call fails ends the request with 502
\* and writes nothing; only a request whose upstream call returned a
\* response whose body was read in full ever calls set; and a file comes
\* into being or changes its content only in the set of such a request for
\* that key.
C12_FailedFetchStoresNothing ==
    /\ [](\A p \in Procs :
            /\ CallsSet(p) => (Fetched(p) /\ req[p].body # "")
            /\ (req[p].pc = "done" /\ req[p].resp.code = 502) =>
                 (req[p].calls = 1 /\ ~Fetched(p) /\ ~req[p].setErr
                    /\ ~req[p].fault))
    /\ [][/\ \A p \in Procs :
               (req[p].pc = "fetch" /\ req'[p].pc = "done") =>
                 (cacheDir' = cacheDir /\ lastSet' = lastSet /\ mu' = mu)
          /\ \A k \in Keys :
               (cacheDir'[k] # cacheDir[k] /\ cacheDir'[k] # NoFile) =>
                 \E p \in Procs :
                   /\ SetCreate(p) \/ SetWrite(p)
                   /\ req[p].key = k
                   /\ Fetched(p)]_vars

\* A request ended with 502 after calling the upstream, and its key has no
\* file and never had an entry.
C12_Witness ==
    \E p \in Procs :
      /\ req[p].pc = "done"
      /\ req[p].resp.code = 502
      /\ req[p].calls = 1
      /\ cacheDir[req[p].key] = NoFile
      /\ lastSet[req[p].key] = NoItem

\* C13: a request without a url ends with 400 in the step of its arrival,
\* and that step changes nothing else: the store, the lock and the write
\* history are as before, no key is derived, nothing was looked up and the
\* upstream was not called.
C13_BadRequestNoEffect ==
    /\ [](\A p \in Procs :
            (req[p].pc = "done" /\ req[p].resp.code = 400) =>
              /\ req[p].url = "" /\ req[p].key = ""
              /\ req[p].calls = 0 /\ req[p].body = ""
              /\ ~req[p].found /\ ~req[p].err /\ ~req[p].fault
              /\ req[p].resp = [NoResp EXCEPT !.code = 400]
              /\ p \notin mu.readers /\ mu.writer # p)
    /\ [][\A p \in Procs :
            (req'[p].pc = "done" /\ req'[p].resp.code = 400
               /\ req[p].pc # "done") =>
              /\ req[p].pc = "idle"
              /\ UNCHANGED <<cacheDir, mu, lastSet, sw, clock>>
              /\ \A q \in Procs \ {p} : req'[q] = req[q]]_vars

\* A request without a url has ended with 400 while the store holds an
\* entry and another request is inside its get.
C13_Witness ==
    \E p, q \in Procs :
      /\ req[p].pc = "done"
      /\ req[p].resp.code = 400
      /\ InGet(q)
      /\ \E k \in Keys : cacheDir[k].kind = "entry"

\* ------------------------------------------------ getCacheKey alone
\* getCacheKey applied to arguments of its own: methods and urls chosen so
\* that one method is a prefix of another, and any headers.
KeyMethods == {"GET", "GETX"}
KeyURLs == {"a", "b", "Xa"}

InitKey ==
    /\ cacheDir = [k \in Keys |-> NoFile]
    /\ mu = [writer |-> None, readers |-> {}]
    /\ clock = 0
    /\ req \in [Procs -> {[IdleReq EXCEPT !.pc = "call", !.method = m,
                                           !.url = u, !.hdr = h] :
                             m \in KeyMethods, u \in KeyURLs,
                             h \in Headers \cup {NoHeaders}}]
    /\ sw = IdleSweep
    /\ lastSet = [k \in Keys |-> NoItem]

\* One call of getCacheKey on the arguments held by p.
KeyDerive(p) ==
    /\ req[p].pc = "call"
    /\ Upd(p, [req[p] EXCEPT !.pc = "return",
                 !.key = getCacheKey(req[p].method, req[p].url, req[p].hdr)])
    /\ UNCHANGED <<cacheDir, mu, clock, sw, lastSet>>

NextKey == \E p \in Procs : KeyDerive(p)

SpecKey == InitKey /\ [][NextKey]_vars

C15_SweepGoesOn ==
    /\ [](/\ SweepDone =>
              /\ \A k \in SnapStale \ sw.failed : cacheDir[k] = NoFile
              /\ \A k \in Keys :
                   sw.snap[k].kind = "partial" => cacheDir[k] = sw.snap[k]
          /\ InSweep => mu.writer = Sweeper
          /\ (sw.pc = "sleep" /\ mu.writer = None) => ENABLED SweepLock)
    /\ [][/\ SweepStep =>
               (sw'.pc = "loop" /\ sw'.i = sw.i + 1 /\ sw'.files = sw.files)
          /\ (SweepReturn /\ sw.pc = "loop") => sw.i > Len(sw.files)
          /\ SweepReturn => (mu'.writer = None /\ sw' = IdleSweep)]_vars

\* A cycle over two stale entries has ended: the removal of the first one
\* failed and the second one is gone.
C15_Witness ==
    /\ SweepDone
    /\ SnapStale = Keys
    /\ sw.failed = {KeySeq[1]}
    /\ cacheDir[KeySeq[1]].kind = "entry"
    /\ cacheDir[KeySeq[2]] = NoFile

\* ------------------------------------------------------------ progress
\* Requests for one url (or none) on both goroutines, with the cleanup
\* goroutine and the clock.
StartLive(p) == Arrive(p, {URLSeq[1], ""}, {NoHeaders})

NextLive == Tick \/ Cleanup \/ (\E p \in Procs : StartLive(p) \/ Serve(p))

\* The steps a goroutine takes on its own: the scheduler runs it, the file
\* system and the upstream return.
Run(p) ==
    \/ GetRead(p)
    \/ GetRemove(p)
    \/ GetReturn(p)
    \/ Fetch(p)
    \/ SetAcquire(p)
    \/ SetCreate(p)
    \/ SetWrite(p)
    \/ SetReturn(p)
\* The steps in which a goroutine asks for the lock. sync.RWMutex admits the
\* readers that wait behind a writer when that writer unlocks, and queues
\* writers on a sync.Mutex that hands over to the longest waiter, so a
\* goroutine that can be admitted again and again is admitted.
AskLock(p) == GetRLock(p) \/ SetLock(p)
\* The steps of a sweep cycle once it has asked for the lock.
SweepRun == SweepAcquire \/ SweepStep \/ SweepReturn

Fairness ==
    /\ \A p \in Procs : WF_vars(Run(p)) /\ SF_vars(AskLock(p))
    /\ WF_vars(SweepRun)

SpecLive == Init /\ [][NextLive]_vars /\ Fairness

\* The terminal outcomes of a request.
Outcomes ==
    {[NoResp EXCEPT !.code = c] : c \in {400, 500, 502}}
      \cup {[code |-> 200, xcache |-> "HIT", ctype |-> "application/json",
              body |-> u.body] : u \in Upstream}
      \cup {[code |-> u.status, xcache |-> "MISS", ctype |-> "",
              body |-> u.body] : u \in Upstream}

\* C16: every request that has arrived ends, with exactly one of the
\* outcomes 400, 500, 502, HIT and MISS written once, and every sweep cycle
\* that has asked for the lock ends; a goroutine holds the lock only inside
\* get, set or the cycle, and has released it when the call has returned.
C16_EveryRequestEnds ==
    /\ [](\A p \in Procs :
            /\ req[p].pc = "done" => req[p].resp \in Outcomes
            /\ req[p].pc # "done" => req[p].resp = NoResp
            /\ p \in mu.readers => InGet(p)
            /\ mu.writer = p => req[p].pc \in {"wlock", "create", "write", "unlock"})
    /\ [](mu.writer = Sweeper => sw.pc # "sleep")
    /\ \A p \in Procs : (req[p].pc # "idle") ~> (req[p].pc = "done")
    /\ (sw.pc # "sleep") ~> (sw.pc = "sleep")

\* A request waits to enter get while the other one is inside set with a
\* failed write and the sweep cycle waits for its turn.
C16_Witness ==
    \E p, q \in Procs :
      /\ req[p].pc = "rlock"
      /\ req[q].pc = "unlock"
      /\ req[q].setErr
      /\ sw.pc = "sleep"
      /\ clock = MaxTime

\* The file of k cannot be decoded and no request that missed on k is on
\* its way to (or inside) its set.
NoMissPending(k) == \A p \in Procs : ~(Missed(p) /\ req[p].key = k)
Undecodable(k) == cacheDir[k].kind = "partial" /\ NoMissPending(k)

\* C17 (as the code has it): once the file of a key is undecodable and no
\* request is left that missed on the key before, this stays so for ever:
\* no step changes the file, every get that has looked at the key has the
\* error, and every request for the key that ends does so with 500, without
\* an upstream call and without a set.
C17_UndecodableStays ==
    /\ [](\A p \in Procs :
            (req[p].key \in Keys /\ Undecodable(req[p].key) /\ Looked(p))
              => (req[p].err /\ ~req[p].found /\ req[p].pc = "runlock"))
    /\ [][\A k \in Keys :
            Undecodable(k) =>
              /\ cacheDir'[k] = cacheDir[k]
              /\ Undecodable(k)'
              /\ \A p \in Procs :
                   (req[p].key = k /\ req[p].pc # "done"
                      /\ req'[p].pc = "done") =>
                     (req'[p].resp = [NoResp EXCEPT !.code = 500]
                        /\ req'[p].calls = 0)]_vars

\* The file of a key is undecodable for good, the clock has run out, one
\* request for the key has ended with 500 and the sweep cycle has gone past
\* the file.
C17_Witness ==
    \E k \in Keys, p \in Procs :
      /\ Undecodable(k)
      /\ req[p].pc = "done" /\ req[p].key = k /\ req[p].err
      /\ req[p].resp.code = 500
      /\ SweepDone /\ sw.snap[k].kind = "partial"
      /\ clock = MaxTime

\* C17 (as stated): the file that the set of a request left undecodable
\* (the deferred Close failed, set returned nil) is undecodable for as long
\* as that request can be observed. (A request that had missed on the key
\* before writes the file afresh.)
C17_NeverReplaced ==
    \A p \in Procs :
      (req[p].pc = "done" /\ req[p].fault /\ ~req[p].setErr)
        => cacheDir[req[p].key].kind = "partial"

\* The request ended as a MISS and its set wrote the file in full.
StoredMiss(p) ==
    /\ req[p].pc = "done"
    /\ req[p].resp.xcache = "MISS"
    /\ ~req[p].fault

\* C18: lookup and store are separate critical sections and misses are not
\* merged. When a set that wrote its file returns, the stored entry is that
\* set's body; of two requests for one key that both ended as MISS, each
\* called the upstream once and the entry last written in full is the body
\* of one of them, the one whose set returned last.
C18_MissesNotCoalesced ==
    /\ [](\A p, q \in Procs :
            (p # q /\ StoredMiss(p) /\ StoredMiss(q)
               /\ req[p].key = req[q].key) =>
              /\ req[p].calls = 1 /\ req[q].calls = 1
              /\ lastSet[req[p].key].Data \in {req[p].body, req[q].body})
    /\ [][\A p \in Procs :
            (SetReturn(p) /\ ~req[p].fault) =>
              /\ cacheDir'[req[p].key] = Encode(lastSet'[req[p].key])
              /\ lastSet'[req[p].key].Data = req[p].body]_vars

\* Two requests for one key have both ended as MISS with different bodies,
\* each after one upstream call, before the clock moved: two upstream calls
\* for one key within one TTL window, the entry being the body set last.
C18_Witness ==
    \E p, q \in Procs :
      /\ StoredMiss(p) /\ StoredMiss(q)
      /\ req[p].key = req[q].key
      /\ req[p].calls = 1 /\ req[q].calls = 1
      /\ req[p].body # req[q].body
      /\ clock = 0
      /\ cacheDir[req[q].key] = Encode(CacheItem(req[q].body, 0))
      /\ lastSet[req[q].key].Data = req[q].body

\* C19: requests served one after the other. A MISS whose set wrote its
\* file has stored the fetched body whatever the upstream status was, and
\* nothing of the status: the entry is the body and the time of the set. A
\* HIT answers 200 with Content-Type application/json and the body last
\* stored for the key, within the TTL of its set.
C19_OnlyBodyStored ==
    \A p \in Procs :
      LET L == lastSet[req[p].key] IN
        /\ StoredMiss(p) =>
             /\ req[p].resp.code = req[p].status
             /\ L.Data = req[p].body
             /\ cacheDir[req[p].key] \in {Encode(L), NoFile}
             /\ cacheDir[req[p].key] = NoFile => Age(L) > TTL
        /\ (req[p].pc = "done" /\ req[p].resp.xcache = "HIT") =>
             /\ req[p].resp = [code |-> 200, xcache |-> "HIT",
                               ctype |-> "application/json", body |-> L.Data]
             /\ cacheDir[req[p].key] = Encode(L) \/ Age(L) > TTL

\* A HIT answers 200 with the body that only a 404 upstream response
\* carries, while that entry is in the store and within its TTL.
C19_Witness ==
    \E p \in Procs :
      /\ req[p].pc = "done"
      /\ req[p].resp.xcache = "HIT"
      /\ req[p].resp.code = 200
      /\ req[p].resp.body = "y"
      /\ \A u \in Upstream : u.body = "y" => u.status = 404
      /\ cacheDir[req[p].key].kind = "entry"
      /\ Age(lastSet[req[p].key]) <= TTL

\* ------------------------------------------------- request headers
\* Requests served one after the other, each with one of the header sets.
StartHdr(p) == Arrive(p, URLs, Headers)

NextHdr == Tick \/ Cleanup \/ StartHdr("r1") \/ Serve("r1")

SpecHdr == Init /\ [][NextHdr]_vars

====
